---- MODULE Spec2Model ----
(***************************************************************************)
(* Model of the Stability-Tracker REST backend (src/api): the record store *)
(* of schedule templates, products and tasks, and the view-set handlers     *)
(* that read and write it.  One action per HTTP operation; the response of  *)
(* the last operation is kept in resp.                                      *)
(***************************************************************************)
EXTENDS Integers, FiniteSets, Sequences, TLC

\* ------------------------------------------------------------------ bounds
MaxTemplates == 1
MaxProducts == 2
MaxTasks == 2
MaxBatch == 3
MaxTime == 1

\* ------------------------------------------------------- identities, nulls
\* Authenticated identities a request may carry.
AuthUsers == {"alice"}
\* A request that carries no authenticated identity.
Anon == "anon"
\* The placeholder account of User.objects.get_or_create(username='testuser').
TestUser == "testuser"
Callers == AuthUsers \cup {Anon}
\* A null column value: ids and timestamps are positive.
NULL == 0
\* The null of the nullable owner column of ScheduleTemplate.
NoUser == "nobody"
Times == 1..MaxTime

is_authenticated(caller) == caller \in AuthUsers

\* The user a perform_create / owner filter uses for the request.
RequestUser(caller) == IF is_authenticated(caller) THEN caller ELSE TestUser

\* ------------------------------------------------------------------- state
VARIABLES
    templates,      \* ScheduleTemplate rows: id -> [user, is_preset]
    products,       \* Product rows: id -> [user, schedule_template_id]
    tasks,          \* Task rows: id -> [user, product_id, deleted, deleted_at]
    nextTemplate,   \* ids handed out so far (uuid4 never repeats)
    nextProduct,
    nextTask,
    resp            \* the response of the last request

vars == <<templates, products, tasks, nextTemplate, nextProduct, nextTask, resp>>

\* JSON values of a request payload field.
Absent == [kind |-> "absent", val |-> NULL]
JsonNull == [kind |-> "null", val |-> NULL]
Blank == [kind |-> "blank", val |-> NULL]
Malformed == [kind |-> "malformed", val |-> NULL]
Uuid(id) == [kind |-> "uuid", val |-> id]
JsonTrue == [kind |-> "true", val |-> NULL]
JsonFalse == [kind |-> "false", val |-> NULL]
JsonTime(t) == [kind |-> "time", val |-> t]

NoBody == [kind |-> "empty"]
NullRepr == [kind |-> "null"]

Response(op, status, body) ==
    [op |-> op, status |-> status, body |-> body]

HTTP_200_OK == 200
HTTP_201_CREATED == 201
HTTP_204_NO_CONTENT == 204
HTTP_400_BAD_REQUEST == 400
HTTP_404_NOT_FOUND == 404

Init ==
    /\ templates = << >>
    /\ products = << >>
    /\ tasks = << >>
    /\ nextTemplate = 1
    /\ nextProduct = 1
    /\ nextTask = 1
    /\ resp = Response("none", HTTP_200_OK, NoBody)

\* The record store as one value; a handler maps the store and a request to
\* the store it leaves and the response it returns.
Store ==
    [templates |-> templates, products |-> products, tasks |-> tasks,
     nextTemplate |-> nextTemplate, nextProduct |-> nextProduct, nextTask |-> nextTask]

Result(db, response) == [db |-> db, resp |-> response]

\* One request: the handler's result becomes the next state.
Handle(r) ==
    /\ templates' = r.db.templates
    /\ products' = r.db.products
    /\ tasks' = r.db.tasks
    /\ nextTemplate' = r.db.nextTemplate
    /\ nextProduct' = r.db.nextProduct
    /\ nextTask' = r.db.nextTask
    /\ resp' = r.resp

\* Row tables are functions from the ids of the stored rows.
Put(table, id, row) == [i \in DOMAIN table \cup {id} |-> IF i = id THEN row ELSE table[i]]
Remove(table, ids) == [i \in DOMAIN table \ ids |-> table[i]]

\* ------------------------------------------------------------ serializers
\* ScheduleTemplateSerializer.to_representation (user is not an exposed field).
TemplateRepr(db, id) == [id |-> id, isPreset |-> db.templates[id].is_preset]

\* ProductSerializer.to_representation: scheduleTemplate is the nested, read-only
\* template; scheduleTemplateId is write-only.
ProductRepr(db, id) ==
    [id |-> id,
     scheduleTemplate |->
        IF db.products[id].schedule_template_id = NULL THEN NullRepr
        ELSE TemplateRepr(db, db.products[id].schedule_template_id)]

\* TaskSerializer.to_representation: product is the nested, read-only product;
\* productId is write-only.
TaskRepr(db, id) ==
    [id |-> id,
     product |-> ProductRepr(db, db.tasks[id].product_id),
     deleted |-> db.tasks[id].deleted,
     deletedAt |-> db.tasks[id].deleted_at]

\* ----------------------------------------------------------- field parsing
Parsed(value) == [ok |-> TRUE, value |-> value]
ParseError == [ok |-> FALSE, value |-> NULL]

\* serializers.UUIDField.to_internal_value: a well-formed UUID or a validation error.
UUIDField_to_internal_value(data) ==
    IF data.kind = "uuid" THEN Parsed(data.val) ELSE ParseError

\* A NullableUUIDField that forgets the empty string.
NullableUUIDField_without_blank(data) ==
    IF data = JsonNull THEN Parsed(NULL) ELSE UUIDField_to_internal_value(data)

\* NullableUUIDField.to_internal_value: '' and None become None.
NullableUUIDField_to_internal_value(data) ==
    IF data = Blank \/ data = JsonNull
    THEN Parsed(NULL)
    ELSE UUIDField_to_internal_value(data)

\* scheduleTemplateId = NullableUUIDField(required=False, allow_null=True): an
\* absent key is skipped (supplied = FALSE), null is accepted as None, anything
\* else goes through to_internal_value.
ScheduleTemplateIdField(data) ==
    IF data = Absent THEN [ok |-> TRUE, supplied |-> FALSE, value |-> NULL]
    ELSE IF data = JsonNull THEN [ok |-> TRUE, supplied |-> TRUE, value |-> NULL]
    ELSE LET r == NullableUUIDField_to_internal_value(data)
         IN [ok |-> r.ok, supplied |-> r.ok, value |-> r.value]

\* ------------------------------------------------- ScheduleTemplateViewSet
\* get_queryset: the caller's own templates and the presets; every template
\* for a request without an authenticated user.
TemplateQueryset(db, caller) ==
    IF is_authenticated(caller)
    THEN {id \in DOMAIN db.templates :
             db.templates[id].user = caller \/ db.templates[id].is_preset}
    ELSE DOMAIN db.templates

\* Payload of a template write: isPreset is optional; fieldsOk stands for the
\* name / testingIntervals fields passing validation.
TemplatePayloads ==
    [isPreset : {Absent, JsonTrue, JsonFalse}, fieldsOk : BOOLEAN]

\* ScheduleTemplateSerializer.is_valid: the per-field errors, empty when valid.
TemplateErrors(data) == IF data.fieldsOk THEN {} ELSE {<<"name", "required">>}

TemplateViewSet_list(db, caller) ==
    Result(db, Response("template_list", HTTP_200_OK,
                        {TemplateRepr(db, id) : id \in TemplateQueryset(db, caller)}))

\* presets: every preset, whoever asks.
TemplateViewSet_presets(db, caller) ==
    Result(db, Response("template_presets", HTTP_200_OK,
                        {TemplateRepr(db, id) :
                            id \in {i \in DOMAIN db.templates : db.templates[i].is_preset}}))

\* perform_create: serializer.save(user = the request's user); is_preset is the
\* payload's isPreset, False when absent.
TemplatePerformCreate(caller, data) ==
    [user |-> RequestUser(caller), is_preset |-> (data.isPreset = JsonTrue)]

TemplateViewSet_create(db, caller, data) ==
    IF TemplateErrors(data) # {}
    THEN Result(db, Response("template_create", HTTP_400_BAD_REQUEST, TemplateErrors(data)))
    ELSE LET id == db.nextTemplate
             saved == [db EXCEPT !.templates = Put(@, id, TemplatePerformCreate(caller, data)),
                                 !.nextTemplate = @ + 1]
         IN Result(saved, Response("template_create", HTTP_201_CREATED, TemplateRepr(saved, id)))

\* update / partial_update: get_object over get_queryset, then the serializer's save.
TemplateViewSet_update(db, caller, id, data) ==
    IF id \notin TemplateQueryset(db, caller)
    THEN Result(db, Response("template_update", HTTP_404_NOT_FOUND, NoBody))
    ELSE IF TemplateErrors(data) # {}
    THEN Result(db, Response("template_update", HTTP_400_BAD_REQUEST, TemplateErrors(data)))
    ELSE LET row == [db.templates[id] EXCEPT
                        !.is_preset = IF data.isPreset = Absent THEN @
                                      ELSE (data.isPreset = JsonTrue)]
             saved == [db EXCEPT !.templates = Put(@, id, row)]
         IN Result(saved, Response("template_update", HTTP_200_OK, TemplateRepr(saved, id)))

\* destroy: ordinary deletion; Product.schedule_template is on_delete=SET_NULL.
TemplateViewSet_destroy(db, caller, id) ==
    IF id \notin TemplateQueryset(db, caller)
    THEN Result(db, Response("template_destroy", HTTP_404_NOT_FOUND, NoBody))
    ELSE LET saved ==
                [db EXCEPT
                    !.templates = Remove(@, {id}),
                    !.products = [p \in DOMAIN @ |->
                                    IF @[p].schedule_template_id = id
                                    THEN [@[p] EXCEPT !.schedule_template_id = NULL]
                                    ELSE @[p]]]
         IN Result(saved, Response("template_destroy", HTTP_204_NO_CONTENT, NoBody))

\* ---------------------------------------------------------- ProductViewSet
\* A product queryset that forgets the owner filter.
ProductQueryset_unfiltered(db, caller) == DOMAIN db.products

\* get_queryset: the rows owned by the request's user (testuser when anonymous).
ProductQueryset(db, caller) ==
    {id \in DOMAIN db.products : db.products[id].user = RequestUser(caller)}

\* Payload of a product write, its name, startDate and other fields being
\* valid: scheduleTemplateId is missing, null, '', a malformed string or the
\* id of a stored template.
ProductPayloads ==
    [scheduleTemplateId : {Absent, JsonNull, Blank, Malformed}
                            \cup {Uuid(t) : t \in DOMAIN templates}]

\* ProductSerializer.is_valid: the per-field errors, empty when valid.
ProductErrors(data) ==
    IF ScheduleTemplateIdField(data.scheduleTemplateId).ok THEN {}
    ELSE {<<"scheduleTemplateId", "invalid">>}

ProductViewSet_list(db, caller) ==
    Result(db, Response("product_list", HTTP_200_OK,
                        {ProductRepr(db, id) : id \in ProductQueryset(db, caller)}))

ProductViewSet_retrieve(db, caller, id) ==
    IF id \in ProductQueryset(db, caller)
    THEN Result(db, Response("product_retrieve", HTTP_200_OK, ProductRepr(db, id)))
    ELSE Result(db, Response("product_retrieve", HTTP_404_NOT_FOUND, NoBody))

\* perform_create: serializer.save(user = the request's user).
ProductPerformCreate(caller, data) ==
    [user |-> RequestUser(caller),
     schedule_template_id |-> ScheduleTemplateIdField(data.scheduleTemplateId).value]

ProductViewSet_create(db, caller, data) ==
    IF ProductErrors(data) # {}
    THEN Result(db, Response("product_create", HTTP_400_BAD_REQUEST, ProductErrors(data)))
    ELSE LET id == db.nextProduct
             saved == [db EXCEPT !.products = Put(@, id, ProductPerformCreate(caller, data)),
                                 !.nextProduct = @ + 1]
         IN Result(saved, Response("product_create", HTTP_201_CREATED, ProductRepr(saved, id)))

ProductViewSet_update(db, caller, id, data) ==
    IF id \notin ProductQueryset(db, caller)
    THEN Result(db, Response("product_update", HTTP_404_NOT_FOUND, NoBody))
    ELSE IF ProductErrors(data) # {}
    THEN Result(db, Response("product_update", HTTP_400_BAD_REQUEST, ProductErrors(data)))
    ELSE LET f == ScheduleTemplateIdField(data.scheduleTemplateId)
             row == [db.products[id] EXCEPT
                        !.schedule_template_id = IF f.supplied THEN f.value ELSE @]
             saved == [db EXCEPT !.products = Put(@, id, row)]
         IN Result(saved, Response("product_update", HTTP_200_OK, ProductRepr(saved, id)))

\* destroy: ordinary deletion; Task.product is on_delete=CASCADE.
ProductViewSet_destroy(db, caller, id) ==
    IF id \notin ProductQueryset(db, caller)
    THEN Result(db, Response("product_destroy", HTTP_404_NOT_FOUND, NoBody))
    ELSE LET saved ==
                [db EXCEPT
                    !.products = Remove(@, {id}),
                    !.tasks = Remove(@, {t \in DOMAIN @ : @[t].product_id = id})]
         IN Result(saved, Response("product_destroy", HTTP_204_NO_CONTENT, NoBody))

\* ------------------------------------------------------------- TaskViewSet
\* get_queryset: the rows owned by the request's user (testuser when anonymous),
\* the deleted ones for the 'deleted' action and the non-deleted ones for every
\* other action (list, retrieve, update, destroy, restore).
TaskQueryset(db, caller, action) ==
    LET queryset == {id \in DOMAIN db.tasks : db.tasks[id].user = RequestUser(caller)}
    IN IF action = "deleted"
       THEN {id \in queryset : db.tasks[id].deleted}
       ELSE {id \in queryset : ~db.tasks[id].deleted}

\* The rows of the deleted action: get_queryset() (already the deleted rows)
\* filtered by deleted=True again.
DeletedTasks(db, caller) ==
    {id \in TaskQueryset(db, caller, "deleted") : db.tasks[id].deleted}

\* Payload of a task write.  productId is a stored product's id, a malformed
\* string, or missing; deleted and deletedAt are optional, writable fields.
TaskPayloads ==
    [productId : {Absent, Malformed} \cup {Uuid(p) : p \in DOMAIN products},
     deleted : {Absent, JsonTrue, JsonFalse},
     deletedAt : {Absent, JsonNull} \cup {JsonTime(t) : t \in Times}]

\* TaskSerializer.is_valid: productId = UUIDField(source='product_id') is
\* required (unless the update is partial) and must parse as a UUID.
TaskErrors(data, partial) ==
    IF data.productId = Absent
    THEN (IF partial THEN {} ELSE {<<"productId", "required">>})
    ELSE IF UUIDField_to_internal_value(data.productId).ok THEN {}
    ELSE {<<"productId", "invalid">>}

\* The row serializer.save(user=...) writes: validated fields over the
\* previous values (the model defaults on create).
TaskSave(old, user, data) ==
    [user |-> user,
     product_id |-> IF data.productId = Absent THEN old.product_id
                    ELSE UUIDField_to_internal_value(data.productId).value,
     deleted |-> IF data.deleted = Absent THEN old.deleted ELSE (data.deleted = JsonTrue),
     deleted_at |-> IF data.deletedAt = Absent THEN old.deleted_at ELSE data.deletedAt.val]

\* Model defaults of a new Task row.
TaskDefaults == [user |-> NoUser, product_id |-> NULL, deleted |-> FALSE, deleted_at |-> NULL]

\* perform_create: serializer.save(user = the request's user).
TaskPerformCreate(caller, data) == TaskSave(TaskDefaults, RequestUser(caller), data)

TaskViewSet_list(db, caller) ==
    Result(db, Response("task_list", HTTP_200_OK,
                        {TaskRepr(db, id) : id \in TaskQueryset(db, caller, "list")}))

TaskViewSet_deleted(db, caller) ==
    Result(db, Response("task_deleted", HTTP_200_OK,
                        {TaskRepr(db, id) : id \in DeletedTasks(db, caller)}))

TaskViewSet_retrieve(db, caller, id) ==
    IF id \in TaskQueryset(db, caller, "retrieve")
    THEN Result(db, Response("task_retrieve", HTTP_200_OK, TaskRepr(db, id)))
    ELSE Result(db, Response("task_retrieve", HTTP_404_NOT_FOUND, NoBody))

TaskViewSet_create(db, caller, data) ==
    IF TaskErrors(data, FALSE) # {}
    THEN Result(db, Response("task_create", HTTP_400_BAD_REQUEST, TaskErrors(data, FALSE)))
    ELSE LET id == db.nextTask
             saved == [db EXCEPT !.tasks = Put(@, id, TaskPerformCreate(caller, data)),
                                 !.nextTask = @ + 1]
         IN Result(saved, Response("task_create", HTTP_201_CREATED, TaskRepr(saved, id)))

\* update (PUT, partial = FALSE) and partial_update (PATCH, partial = TRUE).
TaskViewSet_update(db, caller, id, data, partial) ==
    IF id \notin TaskQueryset(db, caller, "update")
    THEN Result(db, Response("task_update", HTTP_404_NOT_FOUND, NoBody))
    ELSE IF TaskErrors(data, partial) # {}
    THEN Result(db, Response("task_update", HTTP_400_BAD_REQUEST, TaskErrors(data, partial)))
    ELSE LET row == TaskSave(db.tasks[id], db.tasks[id].user, data)
             saved == [db EXCEPT !.tasks = Put(@, id, row)]
         IN Result(saved, Response("task_update", HTTP_200_OK, TaskRepr(saved, id)))

\* A soft delete that forgets the deletion time.
SoftDelete_without_stamp(row, now) == [row EXCEPT !.deleted = TRUE]

\* The row destroy saves: deleted = True, deleted_at = timezone.now().
SoftDelete(row, now) == [row EXCEPT !.deleted = TRUE, !.deleted_at = now]

\* destroy: soft delete of the object get_object finds.
TaskViewSet_destroy(db, caller, id, now) ==
    IF id \notin TaskQueryset(db, caller, "destroy")
    THEN Result(db, Response("task_destroy", HTTP_404_NOT_FOUND, NoBody))
    ELSE LET saved == [db EXCEPT !.tasks = Put(@, id, SoftDelete(@[id], now))]
         IN Result(saved, Response("task_destroy", HTTP_204_NO_CONTENT, NoBody))

\* restore: clears deleted and deleted_at on the object get_object finds; the
\* action is 'restore', so get_object looks among the non-deleted rows.
TaskViewSet_restore(db, caller, id) ==
    IF id \notin TaskQueryset(db, caller, "restore")
    THEN Result(db, Response("task_restore", HTTP_404_NOT_FOUND, NoBody))
    ELSE LET row == [db.tasks[id] EXCEPT !.deleted = FALSE, !.deleted_at = NULL]
             saved == [db EXCEPT !.tasks = Put(@, id, row)]
         IN Result(saved, Response("task_restore", HTTP_200_OK, TaskRepr(saved, id)))

\* Entries of a batch payload.
BatchPayloads == {d \in TaskPayloads : d.deleted = Absent /\ d.deletedAt = Absent}

BatchInputs == UNION {[1..n -> BatchPayloads] : n \in 0..MaxBatch}

\* A batch loop that skips an invalid entry and carries on with the rest.
RECURSIVE BatchLoop_skipping(_, _, _, _, _)
BatchLoop_skipping(db, caller, tasks_data, i, created_tasks) ==
    IF i > Len(tasks_data)
    THEN Result(db, Response("task_batch", HTTP_201_CREATED, created_tasks))
    ELSE IF TaskErrors(tasks_data[i], FALSE) = {}
    THEN LET id == db.nextTask
             saved == [db EXCEPT !.tasks = Put(@, id, TaskPerformCreate(caller, tasks_data[i])),
                                 !.nextTask = @ + 1]
         IN BatchLoop_skipping(saved, caller, tasks_data, i + 1,
                               Append(created_tasks, TaskRepr(saved, id)))
    ELSE BatchLoop_skipping(db, caller, tasks_data, i + 1, created_tasks)

\* The loop of batch from entry i on: each valid entry is created and its
\* representation appended; the first invalid entry ends the request with its
\* errors, the rows created so far staying in the store.
RECURSIVE BatchLoop(_, _, _, _, _)
BatchLoop(db, caller, tasks_data, i, created_tasks) ==
    IF i > Len(tasks_data)
    THEN Result(db, Response("task_batch", HTTP_201_CREATED, created_tasks))
    ELSE IF TaskErrors(tasks_data[i], FALSE) = {}
    THEN LET id == db.nextTask
             saved == [db EXCEPT !.tasks = Put(@, id, TaskPerformCreate(caller, tasks_data[i])),
                                 !.nextTask = @ + 1]
         IN BatchLoop(saved, caller, tasks_data, i + 1,
                      Append(created_tasks, TaskRepr(saved, id)))
    ELSE Result(db, Response("task_batch", HTTP_400_BAD_REQUEST,
                             TaskErrors(tasks_data[i], FALSE)))

TaskViewSet_batch(db, caller, tasks_data) == BatchLoop(db, caller, tasks_data, 1, << >>)

\* ----------------------------------------------------------------- actions
TemplateList(c) == Handle(TemplateViewSet_list(Store, c))
TemplatePresets(c) == Handle(TemplateViewSet_presets(Store, c))
TemplateCreate(c, d) ==
    /\ nextTemplate <= MaxTemplates
    /\ Handle(TemplateViewSet_create(Store, c, d))
TemplateUpdate(c, id, d) == Handle(TemplateViewSet_update(Store, c, id, d))
TemplateDestroy(c, id) == Handle(TemplateViewSet_destroy(Store, c, id))

ProductList(c) == Handle(ProductViewSet_list(Store, c))
ProductRetrieve(c, id) == Handle(ProductViewSet_retrieve(Store, c, id))
ProductCreate(c, d) ==
    /\ nextProduct <= MaxProducts
    /\ Handle(ProductViewSet_create(Store, c, d))
ProductUpdate(c, id, d) == Handle(ProductViewSet_update(Store, c, id, d))
ProductDestroy(c, id) == Handle(ProductViewSet_destroy(Store, c, id))

TaskList(c) == Handle(TaskViewSet_list(Store, c))
TaskDeleted(c) == Handle(TaskViewSet_deleted(Store, c))
TaskRetrieve(c, id) == Handle(TaskViewSet_retrieve(Store, c, id))
TaskCreate(c, d) ==
    /\ nextTask <= MaxTasks
    /\ Handle(TaskViewSet_create(Store, c, d))
TaskUpdate(c, id, d, partial) == Handle(TaskViewSet_update(Store, c, id, d, partial))
TaskDestroy(c, id, now) == Handle(TaskViewSet_destroy(Store, c, id, now))
TaskRestore(c, id) == Handle(TaskViewSet_restore(Store, c, id))
TaskBatch(c, b) ==
    LET r == TaskViewSet_batch(Store, c, b)
    IN /\ r.db.nextTask <= MaxTasks + 1
       /\ Handle(r)

\* ------------------------------------------------------------ specification
TemplateNext ==
    \/ \E c \in Callers : TemplateList(c)
    \/ \E c \in Callers : TemplatePresets(c)
    \/ \E c \in Callers, d \in TemplatePayloads : TemplateCreate(c, d)
    \/ \E c \in Callers, id \in 1..MaxTemplates, d \in TemplatePayloads : TemplateUpdate(c, id, d)
    \/ \E c \in Callers, id \in 1..MaxTemplates : TemplateDestroy(c, id)

ProductNext ==
    \/ \E c \in Callers : ProductList(c)
    \/ \E c \in Callers, id \in 1..MaxProducts : ProductRetrieve(c, id)
    \/ \E c \in Callers, d \in ProductPayloads : ProductCreate(c, d)
    \/ \E c \in Callers, id \in 1..MaxProducts, d \in ProductPayloads : ProductUpdate(c, id, d)
    \/ \E c \in Callers, id \in 1..MaxProducts : ProductDestroy(c, id)

TaskNext ==
    \/ \E c \in Callers : TaskList(c)
    \/ \E c \in Callers : TaskDeleted(c)
    \/ \E c \in Callers, id \in 1..MaxTasks : TaskRetrieve(c, id)
    \/ \E c \in Callers, d \in TaskPayloads : TaskCreate(c, d)
    \/ \E c \in Callers, id \in 1..MaxTasks, d \in TaskPayloads, partial \in BOOLEAN :
          TaskUpdate(c, id, d, partial)
    \/ \E c \in Callers, id \in 1..MaxTasks, now \in Times : TaskDestroy(c, id, now)
    \/ \E c \in Callers, id \in 1..MaxTasks : TaskRestore(c, id)
    \/ \E c \in Callers, b \in BatchInputs : TaskBatch(c, b)

\* The whole API.
Next == TemplateNext \/ ProductNext \/ TaskNext

Spec == Init /\ [][Next]_vars

\* The schedule-template and product endpoints; no task is ever created.
CatalogNext == TemplateNext \/ ProductNext

SpecCatalog == Init /\ [][CatalogNext]_vars

\* The product endpoints with the creation and deletion of the schedule
\* templates products refer to; no task is ever created.
ProductStoreNext ==
    \/ \E c \in Callers, d \in TemplatePayloads : TemplateCreate(c, d)
    \/ \E c \in Callers, id \in 1..MaxTemplates : TemplateDestroy(c, id)
    \/ ProductNext

SpecProducts == Init /\ [][ProductStoreNext]_vars

\* The task endpoints with the creation and deletion of the products tasks
\* belong to; no schedule template is ever created.
TaskStoreNext ==
    \/ \E c \in Callers, d \in ProductPayloads : ProductCreate(c, d)
    \/ \E c \in Callers, id \in 1..MaxProducts : ProductDestroy(c, id)
    \/ TaskNext

SpecTasks == Init /\ [][TaskStoreNext]_vars

\* ------------------------------------------------------------------ claims
\* A row is owned by the caller when its user is the request's user.
OwnedBy(row, caller) == row.user = RequestUser(caller)

\* C1: restoring a soft-deleted task of the caller succeeds, clears the deleted
\* flag and the deletion time, returns the updated representation, and puts the
\* task back in the normal list and out of the deleted list.
C1_RestoreOfDeletedTaskSucceeds ==
    [][\A c \in Callers, id \in DOMAIN tasks :
          (/\ OwnedBy(tasks[id], c)
           /\ tasks[id].deleted
           /\ TaskRestore(c, id))
          => /\ resp'.status = 200
             /\ id \in DOMAIN tasks'
             /\ ~tasks'[id].deleted
             /\ tasks'[id].deleted_at = NULL
             /\ resp'.body = TaskRepr(Store', id)
             /\ id \in TaskQueryset(Store', c, "list")
             /\ id \notin DeletedTasks(Store', c)]_vars

\* C2: deleting a non-deleted task of the caller sets the deleted flag, stamps a
\* deletion time, keeps the row with its other fields (and every other row)
\* unchanged and answers 204 with no content; afterwards the task is out of
\* the caller's normal list and in the deleted list.
C2_DeleteIsSoft ==
    \A c \in Callers, id \in DOMAIN tasks, now \in Times :
       (OwnedBy(tasks[id], c) /\ ~tasks[id].deleted)
       => LET r == TaskViewSet_destroy(Store, c, id, now)
              after == r.db.tasks
          IN /\ r.resp.status = 204
             /\ r.resp.body = NoBody
             /\ DOMAIN after = DOMAIN tasks
             /\ after[id].deleted
             /\ after[id].deleted_at \in Times
             /\ after[id].user = tasks[id].user
             /\ after[id].product_id = tasks[id].product_id
             /\ \A other \in DOMAIN tasks \ {id} : after[other] = tasks[other]
             /\ r.db.products = products
             /\ r.db.templates = templates
             /\ TaskRepr(r.db, id) \notin TaskViewSet_list(r.db, c).resp.body
             /\ TaskRepr(r.db, id) \in TaskViewSet_deleted(r.db, c).resp.body

\* A delete has just answered 204 and left its task flagged and stamped, beside
\* a task that is not deleted.
C2_Witness ==
    /\ resp.op = "task_destroy"
    /\ resp.status = 204
    /\ \E id \in DOMAIN tasks : tasks[id].deleted /\ tasks[id].deleted_at # NULL
    /\ \E id \in DOMAIN tasks : ~tasks[id].deleted

\* An entry of a batch is invalid when its productId is missing or malformed.
InvalidEntry(d) == d.productId.kind # "uuid"
EntryError(d) ==
    {<<"productId", IF d.productId.kind = "absent" THEN "required" ELSE "invalid">>}
FirstInvalid(b) ==
    IF \E i \in 1..Len(b) : InvalidEntry(b[i])
    THEN CHOOSE k \in 1..Len(b) :
            InvalidEntry(b[k]) /\ \A i \in 1..(k - 1) : ~InvalidEntry(b[i])
    ELSE Len(b) + 1

\* What a batch by c with payload list b must leave in store db after creating
\* its first n entries: those rows, in order, under fresh consecutive ids, and
\* nothing else changed.
BatchCreated(db, c, b, n) ==
    /\ db.nextTask = nextTask + n
    /\ DOMAIN db.tasks = DOMAIN tasks \cup (nextTask..(nextTask + n - 1))
    /\ \A id \in DOMAIN tasks : db.tasks[id] = tasks[id]
    /\ \A i \in 1..n :
          db.tasks[nextTask + i - 1] =
             [user |-> RequestUser(c), product_id |-> b[i].productId.val,
              deleted |-> FALSE, deleted_at |-> NULL]
    /\ db.products = products
    /\ db.templates = templates

\* C3: a batch creates the entries before its first invalid entry, keeps them,
\* creates nothing after it and answers 400 with that entry's validation
\* error; a batch of valid entries creates them all and answers 201 with their
\* representations in input order.
C3_BatchStopsAtFirstInvalid ==
    \A c \in Callers, b \in BatchInputs :
       LET r == TaskViewSet_batch(Store, c, b)
           k == FirstInvalid(b)
       IN /\ BatchCreated(r.db, c, b, k - 1)
          /\ IF k <= Len(b)
             THEN /\ r.resp.status = 400
                  /\ r.resp.body = EntryError(b[k])
             ELSE /\ r.resp.status = 201
                  /\ Len(r.resp.body) = Len(b)
                  /\ \A i \in 1..Len(b) :
                        r.resp.body[i] = TaskRepr(r.db, nextTask + i - 1)

\* A batch has just answered 400 with a validation error while every task id
\* has been handed out and the tasks are stored.
C3_Witness ==
    /\ resp.op = "task_batch"
    /\ resp.status = 400
    /\ resp.body = {<<"productId", "invalid">>}
    /\ nextTask = MaxTasks + 1
    /\ DOMAIN tasks = 1..MaxTasks

\* C4: a schedule template is in a caller's list exactly when it is a preset or
\* the caller owns it.
C4_TemplateVisibleIffPresetOrOwned ==
    \A c \in Callers, id \in DOMAIN templates :
       (TemplateRepr(Store, id) \in TemplateViewSet_list(Store, c).resp.body)
          <=> (templates[id].is_preset \/ OwnedBy(templates[id], c))

\* C5 (listing): a created product belongs to the creating caller and is in
\* the lists of that owner's requests only; a stored product is in a caller's
\* list exactly when the caller owns it.
C5_ListedForOwnerOnly ==
    LET db == Store
    IN /\ \A c \in Callers, d \in ProductPayloads :
             LET r == ProductViewSet_create(db, c, d)
             IN r.resp.status = 201
                => /\ OwnedBy(r.db.products[nextProduct], c)
                   /\ \A o \in Callers :
                         (ProductRepr(r.db, nextProduct)
                             \in ProductViewSet_list(r.db, o).resp.body)
                            <=> RequestUser(o) = RequestUser(c)
       /\ \A c \in Callers :
             LET listed == ProductViewSet_list(db, c).resp.body
             IN \A id \in DOMAIN products :
                   (ProductRepr(db, id) \in listed) <=> OwnedBy(products[id], c)

\* The store db holds the products of the current store with their owners.
OwnersKept(db) ==
    /\ DOMAIN db.products = DOMAIN products
    /\ \A p \in DOMAIN products : db.products[p].user = products[p].user

\* C5 (by id): a retrieve, update or delete of a product by a caller who does
\* not own it answers 404 and leaves the store unchanged; and the requests
\* that rewrite stored product rows, a product update and a template deletion,
\* leave every row's owner as it was.
C5_OtherOwnerNotFound ==
    LET db == Store
    IN \A c \in Callers :
          /\ \A id \in DOMAIN products :
                /\ ~OwnedBy(products[id], c)
                   => \A r \in {ProductViewSet_retrieve(db, c, id),
                                ProductViewSet_destroy(db, c, id)} :
                         r.resp.status = 404 /\ r.db = db
                /\ \A d \in ProductPayloads :
                      LET r == ProductViewSet_update(db, c, id, d)
                      IN /\ OwnersKept(r.db)
                         /\ ~OwnedBy(products[id], c)
                            => r.resp.status = 404 /\ r.db = db
          /\ \A t \in DOMAIN templates :
                OwnersKept(TemplateViewSet_destroy(db, c, t).db)

\* C5: owner isolation for products: each product is listed for its own owner
\* and never for the other, and a retrieve, update or delete by id from the
\* other owner answers 404 and leaves the product unchanged.
C5_ProductOwnerIsolation ==
    C5_ListedForOwnerOnly /\ C5_OtherOwnerNotFound

\* Two owners each hold a product and a request by id has just answered 404.
C5_Witness ==
    /\ \E p \in DOMAIN products : products[p].user = "alice"
    /\ \E p \in DOMAIN products : products[p].user = TestUser
    /\ resp.op \in {"product_retrieve", "product_update", "product_destroy"}
    /\ resp.status = 404

\* C6: every task ever created is still a row of the store.
C6_TaskRowsAreNeverRemoved ==
    \A id \in 1..(nextTask - 1) : id \in DOMAIN tasks

\* C7: every preset schedule template has no owner.
C7_PresetHasNoOwner ==
    \A id \in DOMAIN templates : templates[id].is_preset => templates[id].user = NoUser

\* C8: creating a product whose scheduleTemplateId is absent, null or the empty
\* string succeeds and stores no template reference, and a valid identifier is
\* stored as the reference.
C8_OptionalTemplateReference ==
    \A c \in Callers, d \in ProductPayloads :
       LET db == Store
           r == ProductViewSet_create(db, c, d)
       IN /\ d.scheduleTemplateId \in {Absent, JsonNull, Blank}
             => /\ r.resp.status = 201
                /\ nextProduct \in DOMAIN r.db.products
                /\ r.db.products[nextProduct].schedule_template_id = NULL
                /\ r.resp.body.scheduleTemplate = NullRepr
          /\ d.scheduleTemplateId.kind = "uuid"
             => /\ r.resp.status = 201
                /\ nextProduct \in DOMAIN r.db.products
                /\ r.db.products[nextProduct].schedule_template_id = d.scheduleTemplateId.val
                /\ r.resp.body.scheduleTemplate = TemplateRepr(db, d.scheduleTemplateId.val)

\* A product has just been created without a template reference although a
\* template is stored and another product references it.
C8_Witness ==
    /\ resp.op = "product_create"
    /\ resp.status = 201
    /\ resp.body.scheduleTemplate = NullRepr
    /\ \E p \in DOMAIN products : products[p].schedule_template_id # NULL

\* C9: a task's deleted flag is set exactly when its deletion time is not null.
C9_DeletedIffStamped ==
    \A id \in DOMAIN tasks : tasks[id].deleted <=> (tasks[id].deleted_at # NULL)

\* C10: the product of a task is owned by the task's owner.
C10_TaskProductHasSameOwner ==
    \A id \in DOMAIN tasks : products[tasks[id].product_id].user = tasks[id].user

====
